---- MODULE Spec2Model ----
(***************************************************************************)
(* A model of the deep-rust/deep reverse-mode automatic differentiation    *)
(* engine: the graph model (deep/src/lib.rs), the expression builder       *)
(* (deep/src/tensor.rs), the tape with its forward and backward traversals *)
(* (deep-backend-tools/src/lib.rs), the gradient accumulator               *)
(* (deep-backend-tools/src/accumulate_tensors.rs) and the Native backend   *)
(* (deep-native/src/lib.rs) with the handlers of deep-native/tests.        *)
(*                                                                         *)
(* Node indices are 0-based as in the source; the op list is a TLA+        *)
(* sequence, so node n is ops[n + 1].  A tensor is modelled by one integer *)
(* element (the shape vec![] tensors of the train_add test).               *)
(***************************************************************************)
EXTENDS Integers, Sequences, FiniteSets, TLC

VARIABLES
    pc,        \* position of the caller's program
    graph,     \* the &Graph handed to the backend
    handlers,  \* Native.handlers: registered op type -> handler
    inputs,    \* the feed dict: name -> tensor
    state,     \* Backend::State: one slot list per node
    partial,   \* the state collected so far by Native::state
    mode,      \* the entry point: "backend", "eval" or "gradient_descent"
    target,    \* the Input a traversal was started on
    tape,      \* Tape.solved: Internal -> output tensors
    stack,     \* activations of Tape::solve (Internal arm), innermost last
    result,    \* what the call in flight returned (or that it aborted)
    bdelta,    \* the output delta handed to Backend::backward
    bstack,    \* activations of ImOp::backprop, innermost last
    deltas,    \* AccumulateTensors.table: node -> gradient slots
    gd,        \* gradient_descent's locals: learning_rate and loss
    calls,     \* history: the Internal of every Immediate::solve invocation
    props,     \* history: every Propogate::propogate invocation
    trained,   \* history: number of Backend::train invocations
    heap,      \* the Rc<RefCell<Graph>> cells: graph id -> op list
    handles,   \* the live Tensor handles
    nbuilt,    \* number of builder operations applied so far
    merged     \* bookkeeping of the merge scenario

vars == <<pc, graph, handlers, inputs, state, partial, mode, target, tape, stack,
          result, bdelta, bstack, deltas, gd, calls, props, trained, heap,
          handles, nbuilt, merged>>

(***************************************************************************)
(* Bounds.                                                                 *)
(***************************************************************************)
\* Longest hand-built graph handed to the backend.
MaxOps == 2
\* Longest graph another graph is merged into.
MaxSelfOps == 2
\* Longest graph another graph is merged into before the merged graph is evaluated.
MaxEvalSelfOps == 1
\* Number of builder operations applied to handles.
MaxBuilderOps == 4

\* Number of inserts made into one accumulator.
MaxInserts == 3

\* Number of contributions in a collection that is accumulated in two orders.
MaxContributions == 3

\* Node indices and slot gradient lists handed to the accumulator.
AccumulatorSlots == {0, 1}
AccumulatorTensors == {<<>>, <<1>>, <<2>>, <<1, 2>>, <<3, 4>>}

FeedNames == {"a", "z"}
\* Output slots an Internal of a hand-built graph may name.
OutputSlots == {0, 1}
\* Initial values of trainable constants.
ConstValues == {1}
\* Number of output tensors a registered handler's forward returns.
HandlerOutputs == {1, 2}
\* Feed dicts the caller supplies: "z" is either provided or not.
FeedDicts == {[n \in {"a"} |-> 2], [n \in {"a", "z"} |-> IF n = "a" THEN 2 ELSE 3]}
\* Learning rates and output deltas the caller supplies.
LearningRates == {1}
OutputDeltas == {1}

(***************************************************************************)
(* Graph model: deep/src/lib.rs.                                           *)
(***************************************************************************)
OpTys == {"Add", "Sub", "Square", "TrainConst"}

Feed(name) == [tag |-> "Feed", name |-> name]
Internal(node, output) == [tag |-> "Internal", node |-> node, output |-> output]

Add(a, b) == [ty |-> "Add", a |-> a, b |-> b]
Sub(a, b) == [ty |-> "Sub", a |-> a, b |-> b]
Square(a) == [ty |-> "Square", a |-> a]
TrainConst(shape, value) == [ty |-> "TrainConst", shape |-> shape, value |-> value]

\* impl From<&Op> for OpTy (strum's EnumDiscriminants).
OpTy(op) == op.ty

\* The operand Inputs of an op, in operand order.
OpInputs(op) ==
    CASE op.ty \in {"Add", "Sub"} -> <<op.a, op.b>>
      [] op.ty = "Square" -> <<op.a>>
      [] OTHER -> <<>>

InternalShiftInputs(n, shift) == [n EXCEPT !.node = @ + shift]

\* Mutant: the input is handed back as it came.
InputNoShift(input, shift) == input

InputShiftInputs(input, shift) ==
    IF input.tag = "Internal" THEN InternalShiftInputs(input, shift) ELSE input

OpShiftInputs(op, shift) ==
    CASE op.ty = "Add" -> Add(InputShiftInputs(op.a, shift), InputShiftInputs(op.b, shift))
      [] op.ty = "Sub" -> Sub(InputShiftInputs(op.a, shift), InputShiftInputs(op.b, shift))
      [] op.ty = "Square" -> Square(InputShiftInputs(op.a, shift))
      [] OTHER -> op

\* Mutant: every op of the extended list is shifted, self's own ops included.
GraphMergeShiftAll(self, other) ==
    LET current == Len(self)
        extended == self \o other
    IN [i \in 1..Len(extended) |-> OpShiftInputs(extended[i], current)]

\* Mutant: the length is read after the extend.
GraphMergeLateLen(self, other) ==
    LET extended == self \o other
        current == Len(extended)
    IN [i \in 1..Len(extended) |->
            IF i > Len(self) THEN OpShiftInputs(extended[i], current) ELSE extended[i]]

\* Graph::merge: extend by other's ops, then shift the ops from `current` on.
GraphMerge(self, other) ==
    LET current == Len(self)
        extended == self \o other
    IN [i \in 1..Len(extended) |->
            IF i > current THEN OpShiftInputs(extended[i], current) ELSE extended[i]]

\* Graph::merge_input: the merged graph and the shifted input.
GraphMergeInput(self, other, input) ==
    LET current == Len(self)
    IN [graph |-> GraphMerge(self, other), input |-> InputShiftInputs(input, current)]

\* Graph::append: push to the end, return the new op's index.
GraphAppend(self, op) == [graph |-> Append(self, op), node |-> Len(self)]

(***************************************************************************)
(* Well-formed graphs a caller can hand to the backend (Graph.ops and the  *)
(* fields of Internal are public): every Internal operand names an earlier *)
(* node.                                                                   *)
(***************************************************************************)
InputsBelow(i) ==
    {Feed(n) : n \in FeedNames} \cup {Internal(j, k) : j \in 0..(i - 1), k \in OutputSlots}

OpsAt(i) ==
    {Add(a, b) : a \in InputsBelow(i), b \in InputsBelow(i)}
    \cup {Sub(a, b) : a \in InputsBelow(i), b \in InputsBelow(i)}
    \cup {Square(a) : a \in InputsBelow(i)}
    \cup {TrainConst(<<>>, v) : v \in ConstValues}

RECURSIVE GraphsOfLen(_)
GraphsOfLen(n) ==
    IF n = 0 THEN {<<>>}
    ELSE {Append(g, op) : g \in GraphsOfLen(n - 1), op \in OpsAt(n - 1)}

GraphsUpTo(n) == UNION {GraphsOfLen(k) : k \in 0..n}

\* The Inputs a caller may ask a traversal for: feeds, the slots of the graph's
\* nodes, and the slots of the first node index the graph does not have.
Targets(g) == InputsBelow(Len(g) + 1)

WellFormed(g) ==
    \A i \in 1..Len(g) : \A k \in 1..Len(OpInputs(g[i])) :
        LET input == OpInputs(g[i])[k]
        IN input.tag = "Internal" => input.node < i - 1

(***************************************************************************)
(* Results.                                                                *)
(***************************************************************************)
None == [none |-> TRUE]
Ok(v) == [ok |-> v]
InputNotProvided(name) == [err |-> "InputNotProvided", name |-> name]
InternalNotComputed(node, ty) == [err |-> "InternalNotComputed", node |-> node, ty |-> ty]
OpHasNoHandler(ty) == [err |-> "OpHasNoHandler", ty |-> ty]
\* A panic: the call never returns.
Panic(msg) == [panic |-> msg]

IsOk(r) == "ok" \in DOMAIN r
IsErr(r) == "err" \in DOMAIN r
IsPanic(r) == "panic" \in DOMAIN r
IsNone(r) == "none" \in DOMAIN r

(***************************************************************************)
(* The Native backend and the handlers of deep-native/tests/basic.rs.      *)
(***************************************************************************)
\* ImOp::TrainConst; the other immediate ops are Add, Sub, Square over tensors.
ImTrainConst == [ty |-> "TrainConst"]

\* impl From<&ImOp<B>> for OpTy.
ImOpTy(imop) == imop.ty

\* Handler::generate_state.
HandlerGenerateState(op) == IF op.ty = "TrainConst" THEN <<op.value>> ELSE <<>>

\* The value a handler's forward kernel computes.
KernelValue(imop, st) ==
    CASE imop.ty = "Add" -> imop.a + imop.b
      [] imop.ty = "Sub" -> imop.a - imop.b
      [] imop.ty = "Square" -> imop.a * imop.a
      [] OTHER -> st[1]

\* Handler::forward: one tensor per output slot of the handler.
HandlerForward(h, imop, st) == [k \in 1..h.outputs |-> KernelValue(imop, st)]

\* Handler::backward of the four test handlers: the operand gradients
\* re-packed as an ImOp, and the gradients of the node's state.
TestHandlerBackward(imop, st, slot, delta) ==
    CASE imop.ty = "Add" -> [imop |-> Add(delta, delta), train |-> <<>>]
      [] imop.ty = "Sub" -> [imop |-> Sub(delta, 0 - delta), train |-> <<>>]
      [] imop.ty = "Square" -> [imop |-> Square(2 * imop.a * delta), train |-> <<>>]
      [] OTHER -> [imop |-> ImTrainConst, train |-> <<delta>>]

\* An ImOp of the variant ty around the delta.
Repack(ty, delta) ==
    CASE ty = "Add" -> Add(delta, delta)
      [] ty = "Sub" -> Sub(delta, delta)
      [] ty = "Square" -> Square(delta)
      [] OTHER -> ImTrainConst

\* Handler::backward: a handler is free in the ImOp it returns; one that
\* carries `gives` re-packs its gradients as that variant.
HandlerBackward(h, imop, st, slot, delta) ==
    LET own == TestHandlerBackward(imop, st, slot, delta)
    IN IF "gives" \in DOMAIN h
       THEN [imop |-> IF h.gives = imop.ty THEN own.imop ELSE Repack(h.gives, delta),
             train |-> own.train]
       ELSE own

\* Backends the caller may construct with Native::new().handler(..).
Backends ==
    {[ty \in OpTys \ missing |-> [outputs |-> n]] :
        missing \in {{}} \cup {{t} : t \in OpTys}, n \in HandlerOutputs}

\* Mutant: a name that was not fed reads as the default tensor.
FeedLookupDefault(ins, name) == IF name \in DOMAIN ins THEN Ok(ins[name]) ELSE Ok(0)

\* impl Feed: inputs.get(name).cloned().
FeedLookup(ins, name) == IF name \in DOMAIN ins THEN Ok(ins[name]) ELSE None

\* Mutant: an op type without a handler solves to no tensors.
ImmediateSolveDefault(hs, imop, st) ==
    LET ty == ImOpTy(imop)
    IN IF ty \in DOMAIN hs THEN Ok(HandlerForward(hs[ty], imop, st)) ELSE Ok(<<>>)

\* impl Immediate for Native: solve.
ImmediateSolve(hs, imop, st) ==
    LET ty == ImOpTy(imop)
    IN IF ty \in DOMAIN hs THEN Ok(HandlerForward(hs[ty], imop, st)) ELSE None

\* impl Propogate for Native: propogate.
Propogate(hs, imop, st, slot, delta) ==
    LET ty == ImOpTy(imop)
    IN IF ty \in DOMAIN hs THEN Ok(HandlerBackward(hs[ty], imop, st, slot, delta)) ELSE None

\* The state a backend with every handler registered generates for g.
FullState(g) == [i \in 1..Len(g) |-> HandlerGenerateState(g[i])]

(***************************************************************************)
(* Native::state: one handler lookup per node, in node order; collect()    *)
(* stops at the first Err.                                                 *)
(***************************************************************************)
EmptyMap == [x \in {} |-> x]

\* Mutant: a node whose op type has no handler gets an empty slot list.
StateItemLenient(hs, op) ==
    LET ty == OpTy(op)
    IN IF ty \in DOMAIN hs THEN Ok(HandlerGenerateState(op)) ELSE Ok(<<>>)

\* One item of the iterator of Native::state.
StateItem(hs, op) ==
    LET ty == OpTy(op)
    IN IF ty \in DOMAIN hs THEN Ok(HandlerGenerateState(op)) ELSE OpHasNoHandler(ty)

StateCall ==
    /\ pc = "start"
    /\ pc' = "state"
    /\ partial' = <<>>
    /\ UNCHANGED <<graph, handlers, inputs, state, mode, target, tape, stack, result,
                   bdelta, bstack, deltas, gd, calls, props, trained, heap, handles,
                   nbuilt, merged>>

StateStep ==
    /\ pc = "state"
    /\ IF Len(partial) = Len(graph)
       THEN /\ state' = partial
            /\ result' = Ok(partial)
            /\ pc' = "ready"
            /\ UNCHANGED partial
       ELSE LET item == StateItem(handlers, graph[Len(partial) + 1])
            IN IF IsOk(item)
               THEN /\ partial' = Append(partial, item.ok)
                    /\ UNCHANGED <<state, result, pc>>
               ELSE /\ result' = item
                    /\ pc' = "stateless"
                    /\ UNCHANGED <<state, partial>>
    /\ UNCHANGED <<graph, handlers, inputs, mode, target, tape, stack, bdelta, bstack,
                   deltas, gd, calls, props, trained, heap, handles, nbuilt, merged>>

\* The caller brings a State made elsewhere (State is a plain Vec<Vec<Tsor>>):
\* the one a backend with every handler registered generates.
SupplyState ==
    /\ pc = "start"
    /\ state' = FullState(graph)
    /\ pc' = "ready"
    /\ UNCHANGED <<graph, handlers, inputs, partial, mode, target, tape, stack, result,
                   bdelta, bstack, deltas, gd, calls, props, trained, heap, handles,
                   nbuilt, merged>>

(***************************************************************************)
(* Forward: Native::forward, Tape::solve and ImOp::solve.                  *)
(***************************************************************************)
\* Entry::Occupied in Tape::solve.
TapeOccupied(solved, internal) == internal \in DOMAIN solved

\* Mutant: the entry is keyed by the node alone.
TapeInsertByNode(solved, internal, solutions) ==
    LET key == Internal(internal.node, 0)
    IN [k \in DOMAIN solved \cup {key} |-> IF k = key THEN solutions ELSE solved[k]]

\* self.solved.insert(internal, solutions).
TapeInsert(solved, internal, solutions) ==
    [k \in DOMAIN solved \cup {internal} |->
        IF k = internal THEN solutions ELSE solved[k]]

\* Mutant: the operands of a binary op are packed right before left.
MakeImOpSwapped(op, resolved) ==
    CASE op.ty = "Add" -> Add(resolved[2], resolved[1])
      [] op.ty = "Sub" -> Sub(resolved[2], resolved[1])
      [] op.ty = "Square" -> Square(resolved[1])
      [] OTHER -> ImTrainConst

\* ImOp::solve's last step: the immediate op made of the resolved operands.
MakeImOp(op, resolved) ==
    CASE op.ty = "Add" -> Add(resolved[1], resolved[2])
      [] op.ty = "Sub" -> Sub(resolved[1], resolved[2])
      [] op.ty = "Square" -> Square(resolved[1])
      [] OTHER -> ImTrainConst

\* Mutant: the operands are resolved right before left.
SolvePendingRightFirst(stk, tgt) ==
    IF stk = <<>> THEN tgt
    ELSE LET top == stk[Len(stk)]
         IN OpInputs(top.op)[Len(OpInputs(top.op)) - Len(top.resolved)]

\* The Input the innermost activation hands to tape.solve next.
SolvePending(stk, tgt) ==
    IF stk = <<>> THEN tgt
    ELSE LET top == stk[Len(stk)] IN OpInputs(top.op)[Len(top.resolved) + 1]

SolveHasPending(stk) ==
    IF stk = <<>> THEN TRUE
    ELSE Len(stk[Len(stk)].resolved) < Len(OpInputs(stk[Len(stk)].op))

\* Mutant: an Err is swallowed and the default tensor stands in for it.
SolveReturnSwallow(stk, r) ==
    LET v == IF IsOk(r) THEN r ELSE Ok(0)
    IN IF stk # <<>>
       THEN [stack |-> [stk EXCEPT ![Len(stk)].resolved = Append(@, v.ok)],
             result |-> None, finished |-> FALSE]
       ELSE [stack |-> <<>>, result |-> v, finished |-> TRUE]

\* tape.solve returns r to its caller: an Ok value becomes the next resolved
\* operand of the activation below (or the pass's result); an Err passes
\* through every and_then up to the top.
SolveReturn(stk, r) ==
    IF IsOk(r) /\ stk # <<>>
    THEN [stack |-> [stk EXCEPT ![Len(stk)].resolved = Append(@, r.ok)],
          result |-> None, finished |-> FALSE]
    ELSE [stack |-> <<>>, result |-> r, finished |-> TRUE]

\* Native::forward: a fresh tape, then tape.solve on the requested tensor.
StartForward(tensor) ==
    /\ target' = tensor
    /\ tape' = EmptyMap
    /\ stack' = <<>>
    /\ result' = None
    /\ calls' = <<>>
    /\ pc' = "forward"

ForwardCall(tensor) ==
    /\ pc = "ready"
    /\ mode = "backend"
    /\ StartForward(tensor)
    /\ UNCHANGED <<graph, handlers, inputs, state, partial, mode, bdelta, bstack,
                   deltas, gd, props, trained, heap, handles, nbuilt, merged>>

\* What the finished tape.solve leaves: Native::forward maps the tensor to
\* (tensor, tape).
SolveFinish(ret) ==
    /\ stack' = ret.stack
    /\ result' = ret.result
    /\ pc' = IF ret.finished THEN (IF IsOk(ret.result) THEN "solved" ELSE "unsolved")
             ELSE "forward"

\* Tape::solve, Feed arm.
SolveFeed ==
    /\ pc = "forward"
    /\ SolveHasPending(stack)
    /\ LET input == SolvePending(stack, target)
       IN /\ input.tag = "Feed"
          /\ LET found == FeedLookup(inputs, input.name)
             IN SolveFinish(SolveReturn(stack,
                    IF IsOk(found) THEN found ELSE InputNotProvided(input.name)))
    /\ UNCHANGED <<graph, handlers, inputs, state, partial, mode, target, tape, bdelta,
                   bstack, deltas, gd, calls, props, trained, heap, handles, nbuilt, merged>>

\* Tape::solve, Internal arm, Entry::Occupied: the cached slot.
SolveOccupied ==
    /\ pc = "forward"
    /\ SolveHasPending(stack)
    /\ LET input == SolvePending(stack, target)
       IN /\ input.tag = "Internal"
          /\ TapeOccupied(tape, input)
          /\ SolveFinish(SolveReturn(stack,
                IF input.output < Len(tape[input])
                THEN Ok(tape[input][input.output + 1])
                ELSE Panic("index out of bounds")))
    /\ UNCHANGED <<graph, handlers, inputs, state, partial, mode, target, tape, bdelta,
                   bstack, deltas, gd, calls, props, trained, heap, handles, nbuilt, merged>>

\* Tape::solve, Internal arm, Entry::Vacant: graph.ops[internal.node].clone(),
\* then ImOp::solve starts on the op.
SolveVacant ==
    /\ pc = "forward"
    /\ SolveHasPending(stack)
    /\ LET input == SolvePending(stack, target)
       IN /\ input.tag = "Internal"
          /\ ~TapeOccupied(tape, input)
          /\ IF input.node < Len(graph)
             THEN /\ stack' = Append(stack, [internal |-> input,
                                              op |-> graph[input.node + 1],
                                              resolved |-> <<>>])
                  /\ UNCHANGED <<result, pc>>
             ELSE SolveFinish(SolveReturn(stack, Panic("index out of bounds")))
    /\ UNCHANGED <<graph, handlers, inputs, state, partial, mode, target, tape, bdelta,
                   bstack, deltas, gd, calls, props, trained, heap, handles, nbuilt, merged>>

\* Tape::solve, Internal arm, after ImOp::solve returned Ok(imop):
\* backend.solve(imop, &state[internal.node][..]), then the insert.
SolveImmediate ==
    /\ pc = "forward"
    /\ stack # <<>>
    /\ ~SolveHasPending(stack)
    /\ LET top == stack[Len(stack)]
           internal == top.internal
           below == SubSeq(stack, 1, Len(stack) - 1)
           imop == MakeImOp(top.op, top.resolved)
       IN IF internal.node >= Len(state)
          THEN /\ SolveFinish(SolveReturn(below, Panic("index out of bounds")))
               /\ UNCHANGED <<tape, calls>>
          ELSE LET solved == ImmediateSolve(handlers, imop, state[internal.node + 1])
               IN IF IsNone(solved)
                  THEN /\ SolveFinish(SolveReturn(below, OpHasNoHandler(OpTy(top.op))))
                       /\ calls' = Append(calls, internal)
                       /\ UNCHANGED tape
                  ELSE /\ calls' = Append(calls, internal)
                       /\ IF internal.output < Len(solved.ok)
                          THEN /\ tape' = TapeInsert(tape, internal, solved.ok)
                               /\ SolveFinish(SolveReturn(below,
                                      Ok(solved.ok[internal.output + 1])))
                          ELSE /\ SolveFinish(SolveReturn(below,
                                      Panic("index out of bounds")))
                               /\ UNCHANGED tape
    /\ UNCHANGED <<graph, handlers, inputs, state, partial, mode, target, bdelta,
                   bstack, deltas, gd, props, trained, heap, handles, nbuilt, merged>>

(***************************************************************************)
(* Gradient accumulator: accumulate_tensors.rs.                            *)
(***************************************************************************)
\* Mutant: the assert_eq! is gone.
AccumulateInsertNeverPanics(table, slot, tensors) == FALSE

\* The assert_eq! of AccumulateTensors::insert fails.
AccumulateInsertPanics(table, slot, tensors) ==
    slot \in DOMAIN table /\ Len(table[slot]) # Len(tensors)

\* Mutant: the Occupied arm stores the new tensors over the old ones.
AccumulateInsertOverwrite(table, slot, tensors) ==
    [k \in DOMAIN table \cup {slot} |-> IF k # slot THEN table[k] ELSE tensors]

\* The largest n such that every integer of magnitude up to n is an f32
\* (24 bits of significand).
F32Exact == 16777216

\* The spacing of the f32 values around the integer x.
F32Ulp(x) ==
    LET m == IF x < 0 THEN 0 - x ELSE x
    IN IF m <= F32Exact THEN 1
       ELSE IF m <= 2 * F32Exact THEN 2
       ELSE IF m <= 4 * F32Exact THEN 4
       ELSE 8

\* The f32 nearest to the non-negative integer x, ties to the even significand.
F32RoundMagnitude(x) ==
    LET u == F32Ulp(x)
        q == x \div u
        r == x % u
    IN IF 2 * r < u THEN q * u
       ELSE IF 2 * r > u THEN (q + 1) * u
       ELSE IF q % 2 = 0 THEN q * u ELSE (q + 1) * u

\* `*at += &bt` on Tsor = ArcArray<f32, IxDyn>, for integer-valued elements:
\* the exact sum rounded to f32.
TensorAddAssign(at, bt) ==
    LET x == at + bt
    IN IF x < 0 THEN 0 - F32RoundMagnitude(0 - x) ELSE F32RoundMagnitude(x)

\* Mutant: a contribution without tensors leaves no entry.
AccumulateInsertSkipEmpty(table, slot, tensors) ==
    IF tensors = <<>> THEN table
    ELSE [k \in DOMAIN table \cup {slot} |->
            IF k # slot THEN table[k]
            ELSE IF slot \in DOMAIN table
                 THEN [i \in 1..Len(table[slot]) |->
                          IF i <= Len(tensors) THEN TensorAddAssign(table[slot][i], tensors[i])
                          ELSE table[slot][i]]
                 ELSE tensors]

\* AccumulateTensors::insert past the assertion: Occupied adds the zipped
\* tensors in place (zip stops at the shorter side), Vacant stores them.
AccumulateInsert(table, slot, tensors) ==
    [k \in DOMAIN table \cup {slot} |->
        IF k # slot THEN table[k]
        ELSE IF slot \in DOMAIN table
             THEN [i \in 1..Len(table[slot]) |->
                      IF i <= Len(tensors) THEN TensorAddAssign(table[slot][i], tensors[i])
                      ELSE table[slot][i]]
             ELSE tensors]

\* impl Extend: insert every item of the iterator in order; the panic of an
\* insert ends the loop.
RECURSIVE AccumulateExtend(_, _, _)
AccumulateExtend(table, items, k) ==
    IF k > Len(items) THEN [table |-> table, aborted |-> FALSE, inserts |-> Len(items)]
    ELSE IF AccumulateInsertPanics(table, items[k].slot, items[k].tensors)
    THEN [table |-> table, aborted |-> TRUE, inserts |-> k]
    ELSE AccumulateExtend(AccumulateInsert(table, items[k].slot, items[k].tensors),
                          items, k + 1)

(***************************************************************************)
(* Backward: Native::backward, Tape::input, Tape::backprop, ImOp::backprop.*)
(***************************************************************************)
Some(x) == [some |-> x]

\* Mutant: an Internal that is not on the tape reads as the default tensor.
TapeInputDefault(solved, ins, g, input) ==
    IF input.tag = "Feed"
    THEN LET found == FeedLookup(ins, input.name)
         IN IF IsOk(found) THEN found ELSE InputNotProvided(input.name)
    ELSE IF input \in DOMAIN solved /\ input.output < Len(solved[input])
         THEN Ok(solved[input][input.output + 1])
         ELSE Ok(0)

\* Tape::input: a feed, or a slot already on the tape.
TapeInput(solved, ins, g, input) ==
    IF input.tag = "Feed"
    THEN LET found == FeedLookup(ins, input.name)
         IN IF IsOk(found) THEN found ELSE InputNotProvided(input.name)
    ELSE IF input \in DOMAIN solved /\ input.output < Len(solved[input])
         THEN Ok(solved[input][input.output + 1])
         ELSE InternalNotComputed(input.node,
                  IF input.node < Len(g) THEN Some(OpTy(g[input.node + 1])) ELSE None)

\* The operand tensors of op read through Tape::input in operand order: the
\* first Err, or Ok of all of them.
RECURSIVE TapeInputs(_, _, _, _, _)
TapeInputs(solved, ins, g, operands, k) ==
    IF k > Len(operands) THEN Ok(<<>>)
    ELSE LET first == TapeInput(solved, ins, g, operands[k])
         IN IF ~IsOk(first) THEN first
            ELSE LET rest == TapeInputs(solved, ins, g, operands, k + 1)
                 IN IF IsOk(rest) THEN Ok(<<first.ok>> \o rest.ok) ELSE rest

\* The tensors an ImOp carries, in operand order.
ImOpTensors(imop) ==
    CASE imop.ty \in {"Add", "Sub"} -> <<imop.a, imop.b>>
      [] imop.ty = "Square" -> <<imop.a>>
      [] OTHER -> <<>>

\* ImOp::add / ImOp::sub / ImOp::square as used by binary and unary: the
\* tensors of the variant asked for, or the panic of unwrap_or_else.  The
\* nullary closure drops the returned ImOp without looking at it.
Undo(ty, imop) ==
    IF ty = "TrainConst" \/ ImOpTy(imop) = ty THEN Ok(ImOpTensors(imop))
    ELSE Panic("op gave back another ImOp type")

\* The body of ImOp::backprop up to its recursive calls, for the node
\* `internal` and the delta arriving at it.
BackpropNode(solved, hs, g, st, ins, internal, delta, table) ==
    LET op == g[internal.node + 1]
        ty == OpTy(op)
        operands == TapeInputs(solved, ins, g, OpInputs(op), 1)
    IN IF ~IsOk(operands)
       THEN [ret |-> operands, table |-> table, propogated |-> FALSE]
       ELSE IF internal.node >= Len(st)
       THEN [ret |-> Panic("operation doesn't have any state"), table |-> table,
             propogated |-> FALSE]
       ELSE LET grads == Propogate(hs, MakeImOp(op, operands.ok),
                                   st[internal.node + 1], internal.output, delta)
            IN IF IsNone(grads)
               THEN [ret |-> OpHasNoHandler(ty), table |-> table, propogated |-> TRUE]
               ELSE IF AccumulateInsertPanics(table, internal.node, grads.ok.train)
               THEN [ret |-> Panic("AccumulateTensors contains different number of tensors"),
                     table |-> table, propogated |-> TRUE, train |-> grads.ok.train,
                     gave |-> ImOpTy(grads.ok.imop)]
               ELSE [ret |-> Undo(ty, grads.ok.imop),
                     table |-> AccumulateInsert(table, internal.node, grads.ok.train),
                     propogated |-> TRUE, train |-> grads.ok.train,
                     gave |-> ImOpTy(grads.ok.imop)]

\* The (input, output_delta) the innermost activation hands to tape.backprop.
BackpropPending(stk, tgt, delta) ==
    IF stk = <<>> THEN [input |-> tgt, delta |-> delta]
    ELSE LET top == stk[Len(stk)]
         IN [input |-> OpInputs(top.op)[top.next], delta |-> top.grads[top.next]]

\* Mutant: a second operand that names the same Internal as the first is
\* not propagated to again.
BackpropHasPendingOnce(stk) ==
    IF stk = <<>> THEN TRUE
    ELSE LET top == stk[Len(stk)]
             operands == OpInputs(top.op)
         IN /\ top.next <= Len(operands)
            /\ ~(top.next = 2 /\ operands[1] = operands[2])

BackpropHasPending(stk) ==
    IF stk = <<>> THEN TRUE
    ELSE stk[Len(stk)].next <= Len(OpInputs(stk[Len(stk)].op))

\* tape.backprop returns r to its caller: after Ok the activation below goes
\* on to its next operand (or the pass is over); an Err passes through `?`
\* and and_then up to the top.
BackpropReturn(stk, r, table) ==
    IF IsOk(r) /\ stk # <<>>
    THEN [stack |-> [stk EXCEPT ![Len(stk)].next = @ + 1], result |-> None,
          finished |-> FALSE]
    ELSE [stack |-> <<>>, result |-> IF IsOk(r) THEN Ok(table) ELSE r,
          finished |-> TRUE]

BackpropFinish(ret) ==
    /\ bstack' = ret.stack
    /\ result' = ret.result
    /\ pc' = IF ret.finished
             THEN (IF IsOk(ret.result) THEN "propagated" ELSE "unpropagated")
             ELSE "backward"

\* Native::backward: tape.backprop on the tensor with a new accumulator.
StartBackward(tensor, delta) ==
    /\ target' = tensor
    /\ bdelta' = delta
    /\ deltas' = EmptyMap
    /\ bstack' = <<>>
    /\ result' = None
    /\ props' = <<>>
    /\ pc' = "backward"

\* The caller hands the tape Backend::forward returned to Backend::backward.
BackwardCall(tensor, delta) ==
    /\ pc = "solved"
    /\ mode = "backend"
    /\ StartBackward(tensor, delta)
    /\ UNCHANGED <<graph, handlers, inputs, state, partial, mode, tape, stack, gd,
                   calls, trained, heap, handles, nbuilt, merged>>

\* Mutant: the Feed arm looks the name up as Tape::solve does.
TapeBackpropFeedChecked(ins, name, table) ==
    IF IsOk(FeedLookup(ins, name)) THEN Ok(table) ELSE InputNotProvided(name)

\* Tape::backprop, Feed arm: Input::Feed(_) => Ok(deltas).
TapeBackpropFeed(ins, name, table) == Ok(table)

\* Tape::backprop called on a Feed.
BackpropFeed ==
    /\ pc = "backward"
    /\ BackpropHasPending(bstack)
    /\ LET input == BackpropPending(bstack, target, bdelta).input
       IN /\ input.tag = "Feed"
          /\ BackpropFinish(BackpropReturn(bstack,
                TapeBackpropFeed(inputs, input.name, deltas), deltas))
    /\ UNCHANGED <<graph, handlers, inputs, state, partial, mode, target, tape, stack,
                   bdelta, deltas, gd, calls, props, trained, heap, handles, nbuilt, merged>>

\* Tape::backprop, Internal arm, and ImOp::backprop up to its recursion.
BackpropInternal ==
    /\ pc = "backward"
    /\ BackpropHasPending(bstack)
    /\ LET call == BackpropPending(bstack, target, bdelta)
           internal == call.input
       IN /\ internal.tag = "Internal"
          /\ IF internal.node >= Len(graph)
             THEN /\ BackpropFinish(BackpropReturn(bstack,
                        Panic("node requested in backprop but does not exist"), deltas))
                  /\ UNCHANGED <<deltas, props>>
             ELSE LET done == BackpropNode(tape, handlers, graph, state, inputs,
                                           internal, call.delta, deltas)
                  IN /\ deltas' = done.table
                     /\ props' = IF done.propogated
                                 THEN Append(props,
                                        [node |-> internal.node, slot |-> internal.output,
                                         delta |-> call.delta,
                                         train |-> IF "train" \in DOMAIN done
                                                   THEN Some(done.train) ELSE None,
                                         gave |-> IF "gave" \in DOMAIN done
                                                  THEN Some(done.gave) ELSE None])
                                 ELSE props
                     /\ IF IsOk(done.ret)
                        THEN /\ bstack' = Append(bstack,
                                    [internal |-> internal, op |-> graph[internal.node + 1],
                                     grads |-> done.ret.ok, next |-> 1])
                             /\ UNCHANGED <<result, pc>>
                        ELSE BackpropFinish(BackpropReturn(bstack, done.ret, deltas))
    /\ UNCHANGED <<graph, handlers, inputs, state, partial, mode, target, tape, stack,
                   bdelta, gd, calls, trained, heap, handles, nbuilt, merged>>

\* Mutant: a node whose operands were all propagated to has its tape entry
\* dropped.
BackpropDoneEvicting ==
    /\ pc = "backward"
    /\ bstack # <<>>
    /\ ~BackpropHasPending(bstack)
    /\ tape' = [k \in DOMAIN tape \ {bstack[Len(bstack)].internal} |-> tape[k]]
    /\ BackpropFinish(BackpropReturn(SubSeq(bstack, 1, Len(bstack) - 1), Ok(deltas), deltas))
    /\ UNCHANGED <<graph, handlers, inputs, state, partial, mode, target, stack,
                   bdelta, deltas, gd, calls, props, trained, heap, handles, nbuilt, merged>>

\* ImOp::backprop returns Ok(deltas) once every operand was propagated to.
BackpropDone ==
    /\ pc = "backward"
    /\ bstack # <<>>
    /\ ~BackpropHasPending(bstack)
    /\ BackpropFinish(BackpropReturn(SubSeq(bstack, 1, Len(bstack) - 1), Ok(deltas), deltas))
    /\ UNCHANGED <<graph, handlers, inputs, state, partial, mode, target, tape, stack,
                   bdelta, deltas, gd, calls, props, trained, heap, handles, nbuilt, merged>>

\* Native::train: unimplemented!().
NativeTrain(st, table) == [ret |-> Panic("not implemented"), state |-> st]

\* The caller applies the Delta Backend::backward returned.
TrainCall ==
    /\ pc = "propagated"
    /\ mode = "backend"
    /\ LET done == NativeTrain(state, deltas)
       IN /\ state' = done.state
          /\ result' = done.ret
    /\ trained' = trained + 1
    /\ pc' = "done"
    /\ UNCHANGED <<graph, handlers, inputs, partial, mode, target, tape, stack, bdelta,
                   bstack, deltas, gd, calls, props, heap, handles, nbuilt, merged>>

(***************************************************************************)
(* The backend driven directly with a hand-built graph.                    *)
(***************************************************************************)
Init ==
    /\ pc = "start"
    /\ graph \in GraphsUpTo(MaxOps)
    /\ handlers \in Backends
    /\ inputs \in FeedDicts
    /\ state = <<>>
    /\ partial = <<>>
    /\ mode = "backend"
    /\ target = None
    /\ tape = EmptyMap
    /\ stack = <<>>
    /\ result = None
    /\ bdelta = 0
    /\ bstack = <<>>
    /\ deltas = EmptyMap
    /\ gd = None
    /\ calls = <<>>
    /\ props = <<>>
    /\ trained = 0
    /\ heap = <<>>
    /\ handles = {}
    /\ nbuilt = 0
    /\ merged = None

Solve == SolveFeed \/ SolveOccupied \/ SolveVacant \/ SolveImmediate

Backprop == BackpropFeed \/ BackpropInternal \/ BackpropDone

Next ==
    \/ StateCall
    \/ StateStep
    \/ SupplyState
    \/ \E tensor \in Targets(graph) : ForwardCall(tensor)
    \/ Solve
    \/ \E tensor \in Targets(graph), delta \in OutputDeltas : BackwardCall(tensor, delta)
    \/ Backprop
    \/ TrainCall

Spec == Init /\ [][Next]_vars

(***************************************************************************)
(* Expression builder: deep/src/tensor.rs.  A handle is a Tensor: the id   *)
(* of its shared graph cell and its Input.                                 *)
(***************************************************************************)
Handle(gid, input) == [graph |-> gid, input |-> input]

\* What merge2_1 leaves in a's graph cell, and the new handle's Input.
Merge2_1(ga, ia, gb, ib, make) ==
    LET m == GraphMergeInput(ga, gb, ib)
        op == IF make = "Add" THEN Add(ia, m.input) ELSE Sub(ia, m.input)
        appended == GraphAppend(m.graph, op)
    IN [graph |-> appended.graph, input |-> Internal(appended.node, 0)]

\* impl From<&str> for Tensor.
TensorFrom(name) ==
    /\ pc = "build"
    /\ nbuilt < MaxBuilderOps
    /\ heap' = Append(heap, <<>>)
    /\ handles' = handles \cup {Handle(Len(heap) + 1, Feed(name))}
    /\ nbuilt' = nbuilt + 1
    /\ UNCHANGED <<pc, graph, handlers, inputs, state, partial, mode, target, tape,
                   stack, result, bdelta, bstack, deltas, gd, calls, props, trained,
                   merged>>

\* Tensor::train_const.
TensorTrainConst(shape, value) ==
    /\ pc = "build"
    /\ nbuilt < MaxBuilderOps
    /\ heap' = Append(heap, <<TrainConst(shape, value)>>)
    /\ handles' = handles \cup {Handle(Len(heap) + 1, Internal(0, 0))}
    /\ nbuilt' = nbuilt + 1
    /\ UNCHANGED <<pc, graph, handlers, inputs, state, partial, mode, target, tape,
                   stack, result, bdelta, bstack, deltas, gd, calls, props, trained,
                   merged>>

\* Tensor::squared: the new handle shares self's graph cell; self lives on.
TensorSquared(h) ==
    /\ pc = "build"
    /\ nbuilt < MaxBuilderOps
    /\ LET appended == GraphAppend(heap[h.graph], Square(h.input))
       IN /\ heap' = [heap EXCEPT ![h.graph] = appended.graph]
          /\ handles' = handles \cup {Handle(h.graph, Internal(appended.node, 0))}
    /\ nbuilt' = nbuilt + 1
    /\ UNCHANGED <<pc, graph, handlers, inputs, state, partial, mode, target, tape,
                   stack, result, bdelta, bstack, deltas, gd, calls, props, trained,
                   merged>>

\* impl Add / impl Sub for Tensor through merge2_1: both handles are moved.
\* graph.borrow_mut() is taken before b.graph.borrow(): when a and b share
\* one cell the RefCell panics and the cell is left as it was.
TensorBinary(a, b, make) ==
    /\ pc = "build"
    /\ nbuilt < MaxBuilderOps
    /\ a # b
    /\ IF a.graph = b.graph
       THEN /\ result' = Panic("already mutably borrowed")
            /\ pc' = "aborted"
            /\ handles' = handles \ {a, b}
            /\ UNCHANGED heap
       ELSE LET m == Merge2_1(heap[a.graph], a.input, heap[b.graph], b.input, make)
            IN /\ heap' = [heap EXCEPT ![a.graph] = m.graph]
               /\ handles' = (handles \ {a, b}) \cup {Handle(a.graph, m.input)}
               /\ UNCHANGED <<result, pc>>
    /\ nbuilt' = nbuilt + 1
    /\ UNCHANGED <<graph, handlers, inputs, state, partial, mode, target, tape, stack,
                   bdelta, bstack, deltas, gd, calls, props, trained, merged>>

TensorAdd(a, b) == TensorBinary(a, b, "Add")

TensorSub(a, b) == TensorBinary(a, b, "Sub")

\* Tensor::gen_state: backend.state(&self.graph.borrow(), rng).
TensorGenState(h) ==
    /\ pc = "build"
    /\ graph' = heap[h.graph]
    /\ partial' = <<>>
    /\ pc' = "state"
    /\ UNCHANGED <<handlers, inputs, state, mode, target, tape, stack, result, bdelta,
                   bstack, deltas, gd, calls, props, trained, heap, handles, nbuilt,
                   merged>>

\* Tensor::eval: backend.forward on the handle's graph and input.
TensorEval(h) ==
    /\ pc = "ready"
    /\ heap[h.graph] = graph
    /\ mode' = "eval"
    /\ StartForward(h.input)
    /\ UNCHANGED <<graph, handlers, inputs, state, partial, bdelta, bstack, deltas, gd,
                   props, trained, heap, handles, nbuilt, merged>>

\* Tensor::eval's .map(|(output, _)| output): the tape is dropped.
TensorEvalReturn ==
    /\ pc = "solved"
    /\ mode = "eval"
    /\ tape' = EmptyMap
    /\ pc' = "done"
    /\ UNCHANGED <<graph, handlers, inputs, state, partial, mode, target, stack, result,
                   bdelta, bstack, deltas, gd, calls, props, trained, heap, handles,
                   nbuilt, merged>>

\* The conversions the caller hands to gradient_descent, as in train_add:
\* the loss tensor's first element, and tsor0.
TensorLoss(t) == t
DeltaTensor(x) == x

\* Tensor::gradient_descent up to its forward pass.
GradientDescentForward(h, learning_rate) ==
    /\ pc = "ready"
    /\ heap[h.graph] = graph
    /\ mode' = "gradient_descent"
    /\ gd' = [learning_rate |-> learning_rate, loss |-> None, before |-> state]
    /\ StartForward(h.input)
    /\ UNCHANGED <<graph, handlers, inputs, state, partial, bdelta, bstack, deltas,
                   props, trained, heap, handles, nbuilt, merged>>

\* The output delta gradient_descent hands to backward.
GradientDescentDelta(learning_rate, lossv) == DeltaTensor((0 - learning_rate) * lossv)

\* Tensor::gradient_descent after forward returned Ok: the loss, the output
\* delta, and backend.backward on the tape forward returned.
GradientDescentBackward ==
    /\ pc = "solved"
    /\ mode = "gradient_descent"
    /\ LET lossv == TensorLoss(result.ok)
       IN /\ gd' = [gd EXCEPT !.loss = Some(lossv)]
          /\ StartBackward(target, GradientDescentDelta(gd.learning_rate, lossv))
    /\ UNCHANGED <<graph, handlers, inputs, state, partial, mode, tape, stack, calls,
                   trained, heap, handles, nbuilt, merged>>

\* Tensor::gradient_descent after backward returned Ok: backend.train(..)?,
\* then Ok(loss).
GradientDescentTrain ==
    /\ pc = "propagated"
    /\ mode = "gradient_descent"
    /\ LET done == NativeTrain(state, deltas)
       IN /\ state' = done.state
          /\ result' = IF IsOk(done.ret) THEN Ok(gd.loss.some) ELSE done.ret
    /\ trained' = trained + 1
    /\ pc' = "done"
    /\ UNCHANGED <<graph, handlers, inputs, partial, mode, target, tape, stack, bdelta,
                   bstack, deltas, gd, calls, props, heap, handles, nbuilt, merged>>

InitBuild ==
    /\ pc = "build"
    /\ graph = <<>>
    /\ handlers \in {b \in Backends : \A ty \in DOMAIN b : b[ty].outputs = 1}
    /\ inputs \in FeedDicts
    /\ state = <<>>
    /\ partial = <<>>
    /\ mode = "tensor"
    /\ target = None
    /\ tape = EmptyMap
    /\ stack = <<>>
    /\ result = None
    /\ bdelta = 0
    /\ bstack = <<>>
    /\ deltas = EmptyMap
    /\ gd = None
    /\ calls = <<>>
    /\ props = <<>>
    /\ trained = 0
    /\ heap = <<>>
    /\ handles = {}
    /\ nbuilt = 0
    /\ merged = None

\* Tape::solve on a builder-made graph: no entry is ever Occupied there,
\* since no builder operation gives a node a second consumer that a later
\* target reaches (BuiltNeverOccupied below).
SolveBuilt == SolveFeed \/ SolveVacant \/ SolveImmediate

NextBuild ==
    \/ \E name \in FeedNames : TensorFrom(name)
    \/ \E value \in ConstValues : TensorTrainConst(<<>>, value)
    \/ \E h \in handles : TensorSquared(h)
    \/ \E a \in handles, b \in handles : TensorAdd(a, b)
    \/ \E a \in handles, b \in handles : TensorSub(a, b)
    \/ \E h \in handles : TensorGenState(h)
    \/ StateStep
    \/ \E h \in handles : TensorEval(h)
    \/ TensorEvalReturn
    \/ \E h \in handles, lr \in LearningRates : GradientDescentForward(h, lr)
    \/ SolveBuilt
    \/ GradientDescentBackward
    \/ Backprop
    \/ GradientDescentTrain

SpecBuild == InitBuild /\ [][NextBuild]_vars

\* On builder-made graphs Tape::solve never meets an Occupied entry.
BuiltNeverOccupied ==
    (pc = "forward" /\ SolveHasPending(stack)) =>
        LET input == SolvePending(stack, target)
        IN input.tag = "Internal" => ~TapeOccupied(tape, input)

(***************************************************************************)
(* Graph::merge_input on hand-built graphs.                                *)
(***************************************************************************)
InitMerge ==
    /\ pc = "merge"
    /\ merged \in {[self |-> g1, other |-> g2, input |-> None, out |-> None] :
                      g1 \in GraphsUpTo(MaxSelfOps), g2 \in GraphsUpTo(MaxOps)}
    /\ graph = merged.self
    /\ handlers = EmptyMap
    /\ inputs = EmptyMap
    /\ state = <<>>
    /\ partial = <<>>
    /\ mode = "graph"
    /\ target = None
    /\ tape = EmptyMap
    /\ stack = <<>>
    /\ result = None
    /\ bdelta = 0
    /\ bstack = <<>>
    /\ deltas = EmptyMap
    /\ gd = None
    /\ calls = <<>>
    /\ props = <<>>
    /\ trained = 0
    /\ heap = <<>>
    /\ handles = {}
    /\ nbuilt = 0

\* self.merge_input(other, input): self is mutated in place, the shifted
\* input is returned.
GraphMergeInputCall(input) ==
    /\ pc = "merge"
    /\ LET out == GraphMergeInput(graph, merged.other, input)
       IN /\ graph' = out.graph
          /\ merged' = [merged EXCEPT !.input = Some(input), !.out = Some(out.input)]
    /\ pc' = "merged"
    /\ UNCHANGED <<handlers, inputs, state, partial, mode, target, tape, stack, result,
                   bdelta, bstack, deltas, gd, calls, props, trained, heap, handles,
                   nbuilt>>

NextMerge == \E input \in Targets(merged.other) : GraphMergeInputCall(input)

SpecMerge == InitMerge /\ [][NextMerge]_vars

(***************************************************************************)
(* A graph evaluated alone, then merged into another graph and evaluated   *)
(* again at the shifted target.                                            *)
(***************************************************************************)
InitMergeEval ==
    /\ pc = "ready"
    /\ graph \in GraphsUpTo(MaxOps)
    /\ handlers \in Backends
    /\ inputs \in FeedDicts
    /\ state = FullState(graph)
    /\ partial = <<>>
    /\ mode = "backend"
    /\ target = None
    /\ tape = EmptyMap
    /\ stack = <<>>
    /\ result = None
    /\ bdelta = 0
    /\ bstack = <<>>
    /\ deltas = EmptyMap
    /\ gd = None
    /\ calls = <<>>
    /\ props = <<>>
    /\ trained = 0
    /\ heap = <<>>
    /\ handles = {}
    /\ nbuilt = 0
    /\ merged = None

\* self.merge_input(graph, target), the state of self's nodes put in front
\* of the state of graph's nodes, and Backend::forward at the shifted target.
MergeEvalCall(self) ==
    /\ pc \in {"solved", "unsolved"}
    /\ IsNone(merged)
    /\ LET out == GraphMergeInput(self, graph, target)
       IN /\ merged' = [self |-> self, other |-> graph, input |-> target,
                        first |-> result]
          /\ graph' = out.graph
          /\ state' = FullState(self) \o state
          /\ StartForward(out.input)
    /\ UNCHANGED <<handlers, inputs, partial, mode, bdelta, bstack, deltas, gd, props,
                   trained, heap, handles, nbuilt>>

NextMergeEval ==
    \/ \E tensor \in Targets(graph) : IsNone(merged) /\ ForwardCall(tensor)
    \/ Solve
    \/ \E self \in GraphsUpTo(MaxEvalSelfOps) : MergeEvalCall(self)

SpecMergeEval == InitMergeEval /\ [][NextMergeEval]_vars

(***************************************************************************)
(* Forward and backward with a backend one of whose handlers re-packs its  *)
(* gradients as the ImOp variant of its choice.                            *)
(***************************************************************************)
RepackBackends ==
    {[ty \in OpTys |-> IF ty = odd THEN [outputs |-> 1, gives |-> gives]
                                    ELSE [outputs |-> 1]] :
        odd \in OpTys, gives \in OpTys}

InitRepack ==
    /\ pc = "ready"
    /\ graph \in GraphsUpTo(MaxOps)
    /\ handlers \in RepackBackends
    /\ inputs = [n \in {"a", "z"} |-> IF n = "a" THEN 2 ELSE 3]
    /\ state = FullState(graph)
    /\ partial = <<>>
    /\ mode = "backend"
    /\ target = None
    /\ tape = EmptyMap
    /\ stack = <<>>
    /\ result = None
    /\ bdelta = 0
    /\ bstack = <<>>
    /\ deltas = EmptyMap
    /\ gd = None
    /\ calls = <<>>
    /\ props = <<>>
    /\ trained = 0
    /\ heap = <<>>
    /\ handles = {}
    /\ nbuilt = 0
    /\ merged = None

\* Backend::backward on the tensor Backend::forward was called on.
NextRepack ==
    \/ \E tensor \in Targets(graph) : ForwardCall(tensor)
    \/ Solve
    \/ \E delta \in OutputDeltas : BackwardCall(target, delta)
    \/ Backprop

SpecRepack == InitRepack /\ [][NextRepack]_vars

(***************************************************************************)
(* The train_add test: loss = (x + theta - y)^2 with theta a trainable     *)
(* constant starting at 0, x fed as "a" and y = x + 5 fed as "z".          *)
(***************************************************************************)
\* let y = Tensor::from("x") + Tensor::train_const(vec![], 0.0).
TrainAddY == Merge2_1(<<>>, Feed("a"), <<TrainConst(<<>>, 0)>>, Internal(0, 0), "Add")

\* y - Tensor::from("y").
TrainAddDiff == Merge2_1(TrainAddY.graph, TrainAddY.input, <<>>, Feed("z"), "Sub")

\* let loss = (y - Tensor::from("y")).squared().
TrainAddLoss ==
    LET appended == GraphAppend(TrainAddDiff.graph, Square(TrainAddDiff.input))
    IN [graph |-> appended.graph, input |-> Internal(appended.node, 0)]

\* The x values of the steps; m = 5.0 is the actual difference.
TrainXs == 0..4
TrainM == 5

InitTrain ==
    /\ pc = "build"
    /\ graph = <<>>
    /\ handlers = [ty \in OpTys |-> [outputs |-> 1]]
    /\ inputs \in {[n \in {"a", "z"} |-> IF n = "a" THEN x ELSE x + TrainM] : x \in TrainXs}
    /\ state = <<>>
    /\ partial = <<>>
    /\ mode = "tensor"
    /\ target = None
    /\ tape = EmptyMap
    /\ stack = <<>>
    /\ result = None
    /\ bdelta = 0
    /\ bstack = <<>>
    /\ deltas = EmptyMap
    /\ gd = None
    /\ calls = <<>>
    /\ props = <<>>
    /\ trained = 0
    /\ heap = <<TrainAddLoss.graph>>
    /\ handles = {Handle(1, TrainAddLoss.input)}
    /\ nbuilt = 0
    /\ merged = None

NextTrain ==
    \/ \E h \in handles : TensorGenState(h)
    \/ StateStep
    \/ \E h \in handles, lr \in LearningRates : GradientDescentForward(h, lr)
    \/ SolveBuilt
    \/ GradientDescentBackward
    \/ Backprop
    \/ GradientDescentTrain

SpecTrain == InitTrain /\ [][NextTrain]_vars

(***************************************************************************)
(* The gradient accumulator driven directly through its Extend impl.       *)
(***************************************************************************)
\* The (node index, slot gradients) items a caller may extend with.
AccumulatorItems ==
    {[slot |-> n, tensors |-> t] : n \in AccumulatorSlots, t \in AccumulatorTensors}

AccumulatorIters ==
    {<<i>> : i \in AccumulatorItems} \cup {<<i, j>> : i \in AccumulatorItems, j \in AccumulatorItems}

InitAccumulate ==
    /\ pc = "accumulate"
    /\ graph = <<>>
    /\ handlers = EmptyMap
    /\ inputs = EmptyMap
    /\ state = <<>>
    /\ partial = <<>>
    /\ mode = "accumulator"
    /\ target = None
    /\ tape = EmptyMap
    /\ stack = <<>>
    /\ result = None
    /\ bdelta = 0
    /\ bstack = <<>>
    /\ deltas = EmptyMap
    /\ gd = None
    /\ calls = <<>>
    /\ props = <<>>
    /\ trained = 0
    /\ heap = <<>>
    /\ handles = {}
    /\ nbuilt = 0
    /\ merged = None

\* deltas.extend(items): props logs the inserts that were started.
AccumulateExtendCall(items) ==
    /\ pc = "accumulate"
    /\ Len(props) + Len(items) <= MaxInserts
    /\ LET done == AccumulateExtend(deltas, items, 1)
       IN /\ deltas' = done.table
          /\ props' = props \o SubSeq(items, 1, done.inserts)
          /\ pc' = IF done.aborted THEN "aborted" ELSE pc
          /\ result' = IF done.aborted
                       THEN Panic("AccumulateTensors contains different number of tensors")
                       ELSE result
    /\ UNCHANGED <<graph, handlers, inputs, state, partial, mode, target, tape, stack,
                   bdelta, bstack, gd, calls, trained, heap, handles, nbuilt, merged>>

NextAccumulate == \E items \in AccumulatorIters : AccumulateExtendCall(items)

SpecAccumulate == InitAccumulate /\ [][NextAccumulate]_vars

(***************************************************************************)
(* One collection of contributions accumulated twice from an empty         *)
(* accumulator: in the order given, then in a permutation of it.           *)
(***************************************************************************)
\* Slot gradient lists of the contributions; F32Exact is the f32 2^24.
PermuteTensors == {<<1>>, <<2>>, <<F32Exact>>, <<1, 2>>, <<3, 4>>}

Contributions ==
    {[slot |-> n, tensors |-> t] : n \in AccumulatorSlots, t \in PermuteTensors}

\* All contributions to one node index have the same slot count.
SameSlotCounts(items) ==
    \A i \in 1..Len(items), j \in 1..Len(items) :
        items[i].slot = items[j].slot => Len(items[i].tensors) = Len(items[j].tensors)

ContributionLists ==
    {items \in UNION {[1..n -> Contributions] : n \in 1..MaxContributions} :
        SameSlotCounts(items)}

OrdersOf(n) ==
    {p \in [1..n -> 1..n] : \A i \in 1..n, j \in 1..n : p[i] = p[j] => i = j}

Permuted(items, p) == [i \in 1..Len(items) |-> items[p[i]]]

InitPermute ==
    /\ pc = "collect"
    /\ merged \in {[items |-> items, order |-> p, first |-> None] :
                      items \in ContributionLists, p \in OrdersOf(MaxContributions)}
    /\ \A i \in (Len(merged.items) + 1)..MaxContributions : merged.order[i] = i
    /\ graph = <<>>
    /\ handlers = EmptyMap
    /\ inputs = EmptyMap
    /\ state = <<>>
    /\ partial = <<>>
    /\ mode = "accumulator"
    /\ target = None
    /\ tape = EmptyMap
    /\ stack = <<>>
    /\ result = None
    /\ bdelta = 0
    /\ bstack = <<>>
    /\ deltas = EmptyMap
    /\ gd = None
    /\ calls = <<>>
    /\ props = <<>>
    /\ trained = 0
    /\ heap = <<>>
    /\ handles = {}
    /\ nbuilt = 0

\* AccumulateTensors::new() extended with items: props logs the items.
ExtendNew(items, then) ==
    LET done == AccumulateExtend(EmptyMap, items, 1)
    IN /\ deltas' = done.table
       /\ props' = SubSeq(items, 1, done.inserts)
       /\ pc' = IF done.aborted THEN "aborted" ELSE then
       /\ result' = IF done.aborted
                    THEN Panic("AccumulateTensors contains different number of tensors")
                    ELSE result

\* The collection in the order given.
ExtendInOrder ==
    /\ pc = "collect"
    /\ ExtendNew(merged.items, "extended")
    /\ merged' = [merged EXCEPT !.first = Some(deltas')]
    /\ UNCHANGED <<graph, handlers, inputs, state, partial, mode, target, tape, stack,
                   bdelta, bstack, gd, calls, trained, heap, handles, nbuilt>>

\* The same collection, permuted, into another new accumulator.
ExtendPermuted ==
    /\ pc = "extended"
    /\ ExtendNew(Permuted(merged.items, [i \in 1..Len(merged.items) |-> merged.order[i]]),
                 "permuted")
    /\ UNCHANGED <<graph, handlers, inputs, state, partial, mode, target, tape, stack,
                   bdelta, bstack, gd, calls, trained, heap, handles, nbuilt, merged>>

NextPermute == ExtendInOrder \/ ExtendPermuted

SpecPermute == InitPermute /\ [][NextPermute]_vars

(***************************************************************************)
(* Properties.                                                             *)
(***************************************************************************)
\* The nodes a traversal from input reaches through Internal operands.
RECURSIVE ReachableFrom(_, _)
ReachableFrom(g, input) ==
    IF input.tag = "Feed" \/ input.node >= Len(g) THEN {}
    ELSE LET operands == OpInputs(g[input.node + 1])
         IN {input.node}
            \cup UNION {ReachableFrom(g, operands[k]) : k \in 1..Len(operands)}

\* Number of Immediate::solve invocations on node n.
SolveCount(n) == Cardinality({i \in 1..Len(calls) : calls[i].node = n})

\* C1: in a forward pass that succeeded, Immediate::solve was invoked
\* exactly once on every node reachable from the target and on no other
\* node, however many operands name the node.
C1_KernelOncePerNode ==
    (mode = "backend" /\ pc = "solved") =>
        \A n \in 0..(Len(graph) - 1) :
            SolveCount(n) = IF n \in ReachableFrom(graph, target) THEN 1 ELSE 0

\* What the code does guarantee: at most one invocation per tape key, which
\* is the whole Internal (node and output slot).
KernelOncePerInternal ==
    \A i \in 1..Len(calls), j \in 1..Len(calls) : calls[i] = calls[j] => i = j

\* The state gradients of the propogate invocations on node x, in the order
\* of the invocations.
RECURSIVE TrainOn(_, _)
TrainOn(log, x) ==
    IF log = <<>> THEN <<>>
    ELSE LET rest == TrainOn(Tail(log), x)
         IN IF Head(log).node = x /\ ~IsNone(Head(log).train)
            THEN <<Head(log).train.some>> \o rest ELSE rest

\* The output deltas that arrived at node x, in the order of arrival.
RECURSIVE DeltasOn(_, _)
DeltasOn(log, x) ==
    IF log = <<>> THEN <<>>
    ELSE LET rest == DeltasOn(Tail(log), x)
         IN IF Head(log).node = x THEN <<Head(log).delta>> \o rest ELSE rest

\* The slot-wise sum of gradient lists, taken from the last one backwards.
RECURSIVE TotalFromLast(_)
TotalFromLast(lists) ==
    IF Len(lists) = 1 THEN lists[1]
    ELSE LET last == lists[Len(lists)]
             before == TotalFromLast(SubSeq(lists, 1, Len(lists) - 1))
         IN [i \in 1..Len(last) |-> last[i] + before[i]]

\* C2: after a successful backward pass the accumulator holds, for every
\* node, the slot-wise sum of all state gradients propogate returned for it,
\* whatever the order of the contributions; a trainable constant that two
\* deltas d1 and d2 arrived at holds d1 + d2.
C2_AdditiveAccumulation ==
    pc = "propagated" =>
        \A x \in 0..(Len(graph) - 1) :
            LET contributions == TrainOn(props, x)
                arrived == DeltasOn(props, x)
            IN /\ (contributions = <<>>) = (x \notin DOMAIN deltas)
               /\ contributions # <<>> => deltas[x] = TotalFromLast(contributions)
               /\ (graph[x + 1].ty = "TrainConst" /\ Len(arrived) = 2) =>
                      deltas[x] = <<arrived[1] + arrived[2]>>

\* A trainable constant received two different deltas through two operands.
C2_Witness ==
    /\ pc = "propagated"
    /\ \E x \in 0..(Len(graph) - 1) :
          /\ graph[x + 1].ty = "TrainConst"
          /\ Len(DeltasOn(props, x)) = 2
          /\ DeltasOn(props, x)[1] # DeltasOn(props, x)[2]
          /\ deltas[x] = <<DeltasOn(props, x)[1] + DeltasOn(props, x)[2]>>
          /\ target = Internal(Len(graph) - 1, 0)

\* new is orig with its node index raised by n, when orig is an Internal,
\* and orig itself when it is a Feed.
ShiftedBy(orig, new, n) ==
    IF orig.tag = "Feed" THEN new = orig
    ELSE /\ new.tag = "Internal"
         /\ new.node = orig.node + n
         /\ new.output = orig.output

OpShiftedBy(orig, new, n) ==
    /\ new.ty = orig.ty
    /\ orig.ty = "TrainConst" => new = orig
    /\ \A k \in 1..Len(OpInputs(orig)) : ShiftedBy(OpInputs(orig)[k], OpInputs(new)[k], n)

\* C3: merge_input of other into self of length n leaves n + |other| ops:
\* self's ops unchanged, then other's ops in order with every Internal node
\* raised by n and feeds and output slots kept; the returned input is the
\* given one shifted the same way.
C3_MergeShifts ==
    pc = "merged" =>
        LET n == Len(merged.self)
        IN /\ Len(graph) = n + Len(merged.other)
           /\ \A i \in 1..n : graph[i] = merged.self[i]
           /\ \A j \in 1..Len(merged.other) :
                  OpShiftedBy(merged.other[j], graph[n + j], n)
           /\ ShiftedBy(merged.input.some, merged.out.some, n)

\* Both graphs hold an op with an Internal operand and the input is an Internal.
C3_Witness ==
    /\ pc = "merged"
    /\ Len(merged.self) = 2
    /\ Len(merged.other) = 2
    /\ merged.self[2].ty = "Square" /\ merged.self[2].a.tag = "Internal"
    /\ merged.other[2].ty = "Add" /\ merged.other[2].b = Internal(0, 1)
    /\ merged.input.some = Internal(1, 0)
    /\ merged.out.some = Internal(3, 0)

\* C4: forward on the merged graph at the shifted target ends as forward on
\* the other graph alone at the original target did: the same value, or
\* the same failure.
C4_MergePreservesEvaluation ==
    (~IsNone(merged) /\ pc \in {"solved", "unsolved"}) => result = merged.first

\* A non-empty graph was put in front and the shifted target evaluated
\* through two kernel invocations.
C4_Witness ==
    /\ ~IsNone(merged)
    /\ pc = "solved"
    /\ Len(merged.self) >= 1
    /\ merged.input.tag = "Internal"
    /\ Len(calls) >= 2
    /\ IsOk(merged.first)

\* C5: in every graph a handle holds, each Internal operand names a node
\* before the op that contains it, and each handle's own Internal input
\* names a node of its graph.
C5_BuilderWellFormed ==
    \A h \in handles :
        /\ WellFormed(heap[h.graph])
        /\ h.input.tag = "Internal" => h.input.node < Len(heap[h.graph])

\* A handle on a graph made by merging a graph with an Internal operand
\* behind a non-empty graph.
C5_Witness ==
    \E h \in handles :
        /\ Len(heap[h.graph]) = 4
        /\ heap[h.graph][3] = Square(Internal(1, 0))
        /\ heap[h.graph][4].ty = "Add"
        /\ h.input = Internal(3, 0)

\* The feed names a traversal from input reaches.
RECURSIVE FeedsFrom(_, _)
FeedsFrom(g, input) ==
    IF input.tag = "Feed" THEN {input.name}
    ELSE IF input.node >= Len(g) THEN {}
    ELSE LET operands == OpInputs(g[input.node + 1])
         IN UNION {FeedsFrom(g, operands[k]) : k \in 1..Len(operands)}

\* The Internals a traversal from input resolves: the input itself and the
\* operands of every node it reaches.
RECURSIVE RefsFrom(_, _)
RefsFrom(g, input) ==
    IF input.tag = "Feed" THEN {}
    ELSE IF input.node >= Len(g) THEN {input}
    ELSE LET operands == OpInputs(g[input.node + 1])
         IN {input} \cup UNION {RefsFrom(g, operands[k]) : k \in 1..Len(operands)}

\* Every Internal the traversal resolves names a node of the graph and, when
\* the node's handler is registered, a slot the handler returns.
RefsInRange(g, hs, input) ==
    \A r \in RefsFrom(g, input) :
        /\ r.node < Len(g)
        /\ OpTy(g[r.node + 1]) \in DOMAIN hs => r.output < hs[OpTy(g[r.node + 1])].outputs

MissingFeeds == FeedsFrom(graph, target) \ DOMAIN inputs

Unregistered == {OpTy(graph[n + 1]) : n \in ReachableFrom(graph, target)} \ DOMAIN handlers

ForwardOver == mode = "backend" /\ pc \in {"solved", "unsolved"}

\* C6: a forward pass that reaches a Feed whose name is not in the feed dict
\* does not succeed; when that is the only thing wrong it fails with
\* InputNotProvided naming a missing feed, and InputNotProvided never names
\* anything else.
C6_MissingInput ==
    ForwardOver =>
        /\ MissingFeeds # {} => ~IsOk(result)
        /\ (MissingFeeds # {} /\ Unregistered = {} /\ RefsInRange(graph, handlers, target))
              => result \in {InputNotProvided(name) : name \in MissingFeeds}
        /\ (IsErr(result) /\ result.err = "InputNotProvided") => result.name \in MissingFeeds

\* An op with the operand Feed("z") failed for the missing "z" after another
\* node was solved.
C6_Witness ==
    /\ ForwardOver
    /\ result = InputNotProvided("z")
    /\ target.tag = "Internal"
    /\ Len(calls) = 1
    /\ "a" \in DOMAIN inputs

\* C7: a forward pass that reaches an op whose type has no handler does not
\* succeed; when that is the only thing wrong it fails with OpHasNoHandler
\* carrying that op type, and OpHasNoHandler never carries another type.
C7_UnregisteredOp ==
    ForwardOver =>
        /\ Unregistered # {} => ~IsOk(result)
        /\ (Unregistered # {} /\ MissingFeeds = {} /\ RefsInRange(graph, handlers, target))
              => result \in {OpHasNoHandler(ty) : ty \in Unregistered}
        /\ (IsErr(result) /\ result.err = "OpHasNoHandler") => result.ty \in Unregistered

\* The Square node below the target had no handler; the target's own type had.
C7_Witness ==
    /\ ForwardOver
    /\ result = OpHasNoHandler("Square")
    /\ target = Internal(1, 0)
    /\ graph[2].ty = "Add"
    /\ graph[1].ty = "Square"

\* C8: forward on an Internal whose node the graph does not have returns the
\* typed error InternalNotComputed.
C8_MissingNodeIsTypedError ==
    (ForwardOver /\ target.tag = "Internal" /\ target.node >= Len(graph)) =>
        (IsErr(result) /\ result.err = "InternalNotComputed")

\* The index of the first node whose op type has no handler, or 0.
FirstUnregistered(g, hs) ==
    LET bad == {i \in 1..Len(g) : OpTy(g[i]) \notin DOMAIN hs}
    IN IF bad = {} THEN 0 ELSE CHOOSE i \in bad : \A j \in bad : i <= j

\* C9: Native::state collects the nodes' states in node order; on success
\* the state has one slot list per node at the node's index; when a node's
\* op type has no handler it fails with OpHasNoHandler for the first such
\* node's type, having visited exactly the nodes before it, and the caller
\* gets no state.
C9_StateGeneration ==
    /\ pc = "state" =>
          /\ Len(partial) <= Len(graph)
          /\ \A i \in 1..Len(partial) :
                /\ partial[i] = HandlerGenerateState(graph[i])
                /\ OpTy(graph[i]) \in DOMAIN handlers
    /\ (pc = "ready" /\ IsOk(result)) =>
          /\ state = result.ok
          /\ Len(state) = Len(graph)
          /\ \A i \in 1..Len(graph) : state[i] = HandlerGenerateState(graph[i])
          /\ FirstUnregistered(graph, handlers) = 0
    /\ pc = "stateless" =>
          /\ FirstUnregistered(graph, handlers) # 0
          /\ result = OpHasNoHandler(OpTy(graph[FirstUnregistered(graph, handlers)]))
          /\ Len(partial) = FirstUnregistered(graph, handlers) - 1
          /\ state = <<>>

\* State generation failed at the second node, after the first was visited.
C9_Witness ==
    /\ pc = "stateless"
    /\ Len(graph) = 2
    /\ partial = <<<<1>>>>
    /\ result = OpHasNoHandler("Square")

\* C10: when forward and backward both succeeded, gradient_descent has run
\* backward on the forward tape with the delta of -learning_rate * loss,
\* applied the gradients through train exactly once and returned Ok(loss).
C10_GradientDescentReturnsLoss ==
    (mode = "gradient_descent" /\ pc = "done") =>
        /\ bdelta = DeltaTensor((0 - gd.learning_rate) * gd.loss.some)
        /\ trained = 1
        /\ result = Ok(gd.loss.some)

\* C11: when a pass of gradient_descent fails with a typed error,
\* gradient_descent stops there with that error, train was not invoked and
\* State is what it was before the call; a target that reaches a missing
\* feed always ends so, with InputNotProvided.
C11_FailedStepChangesNothing ==
    mode = "gradient_descent" =>
        /\ (pc \in {"unsolved", "unpropagated"} /\ IsErr(result)) =>
              (trained = 0 /\ state = gd.before /\ deltas = EmptyMap)
        /\ MissingFeeds # {} =>
              /\ trained = 0
              /\ state = gd.before
              /\ pc \in {"forward", "unsolved"}
              /\ pc = "unsolved" =>
                    result \in {InputNotProvided(name) : name \in MissingFeeds}

\* gradient_descent on a loss with a trainable constant and the missing
\* feed "z" failed in its forward pass after one kernel ran.
C11_Witness ==
    /\ mode = "gradient_descent"
    /\ pc = "unsolved"
    /\ result = InputNotProvided("z")
    /\ state # <<>>
    /\ \E i \in 1..Len(state) : state[i] # <<>>
    /\ Len(calls) >= 1

\* The value of input by plain recursion, without a tape: a feed is its
\* entry of the feed dict, an Internal is its op applied to the values of
\* its operands, first operand on the left, or its node's stored constant.
RECURSIVE RefValue(_, _, _, _)
RefValue(g, st, ins, input) ==
    IF input.tag = "Feed" THEN ins[input.name]
    ELSE LET op == g[input.node + 1]
         IN CASE op.ty = "Add" -> RefValue(g, st, ins, op.a) + RefValue(g, st, ins, op.b)
              [] op.ty = "Sub" -> RefValue(g, st, ins, op.a) - RefValue(g, st, ins, op.b)
              [] op.ty = "Square" -> RefValue(g, st, ins, op.a) * RefValue(g, st, ins, op.a)
              [] OTHER -> st[input.node + 1][1]

\* C12: a forward pass that succeeded returned the value plain recursion
\* gives the target; Feed(a) + Feed(z) with a = 2 and z = 3 gives 5.
C12_ForwardMatchesReference ==
    (mode = "backend" /\ pc = "solved") =>
        /\ result = Ok(RefValue(graph, state, inputs, target))
        /\ (/\ target.tag = "Internal"
            /\ graph[target.node + 1] = Add(Feed("a"), Feed("z"))
            /\ inputs["a"] = 2 /\ inputs["z"] = 3) => result = Ok(5)

\* Sub of a computed node and a feed: (a * a) - z = 1.
C12_Witness ==
    /\ mode = "backend"
    /\ pc = "solved"
    /\ graph = <<Square(Feed("a")), Sub(Internal(0, 0), Feed("z"))>>
    /\ target = Internal(1, 0)
    /\ result = Ok(1)

\* C13: during a forward pass the tape holds at most one entry per node
\* index, and each entry holds all the output slots the node's handler
\* returned.
C13_TapeOneEntryPerNode ==
    (mode = "backend" /\ pc \in {"forward", "solved", "unsolved"}) =>
        /\ \A k1 \in DOMAIN tape, k2 \in DOMAIN tape : k1.node = k2.node => k1 = k2
        /\ \A k \in DOMAIN tape :
              Len(tape[k]) = handlers[OpTy(graph[k.node + 1])].outputs

\* What the code keeps: every entry is the full slot vector of its node.
TapeEntriesFull ==
    (mode = "backend" /\ pc \in {"forward", "solved", "unsolved"}) =>
        \A k \in DOMAIN tape :
            Len(tape[k]) = handlers[OpTy(graph[k.node + 1])].outputs

\* C14: a step that makes one insert of (slot, tensors): an unseen slot
\* gets tensors as they are; a seen slot with as many tensors gets the
\* element-wise sum and keeps its count; a seen slot with another count
\* aborts with nothing stored; no other slot's entry changes.
C14_AccumulatorInsert ==
    [][(pc = "accumulate" /\ Len(props') = Len(props) + 1) =>
          LET slot == props'[Len(props')].slot
              tensors == props'[Len(props')].tensors
          IN /\ \A k \in DOMAIN deltas \ {slot} : k \in DOMAIN deltas' /\ deltas'[k] = deltas[k]
             /\ DOMAIN deltas' \subseteq DOMAIN deltas \cup {slot}
             /\ IF slot \notin DOMAIN deltas
                THEN pc' = "accumulate" /\ deltas'[slot] = tensors
                ELSE IF Len(deltas[slot]) = Len(tensors)
                THEN /\ pc' = "accumulate"
                     /\ Len(deltas'[slot]) = Len(deltas[slot])
                     /\ \A i \in 1..Len(tensors) : deltas'[slot][i] = deltas[slot][i] + tensors[i]
                ELSE /\ pc' = "aborted"
                     /\ IsPanic(result')
                     /\ deltas' = deltas]_vars

\* Two inserts of two tensors each into one slot, summed, next to another slot.
C14_Witness ==
    /\ pc = "accumulate"
    /\ props = <<[slot |-> 1, tensors |-> <<1, 2>>], [slot |-> 0, tensors |-> <<1>>],
                 [slot |-> 1, tensors |-> <<3, 4>>]>>
    /\ deltas[1] = <<4, 6>>
    /\ deltas[0] = <<1>>

\* C15: every gradient_descent step of the train_add loop returns
\* successfully with the loss of its forward pass (and the loss falls below
\* 0.1 within 1000 such steps).
C15_TrainingStepsSucceed ==
    (mode = "gradient_descent" /\ pc = "done" /\ heap = <<TrainAddLoss.graph>>) =>
        (IsOk(result) /\ result.ok = gd.loss.some)

\* C16: a + b and a - b complete for any two handles, two handles on one
\* shared graph included: no binary composition aborts.
C16_BinaryNeverAborts ==
    pc # "aborted"

\* The propogate invocations of the log whose returned ImOp is of another
\* variant than the node's op.
Mismatches ==
    {i \in 1..Len(props) :
        ~IsNone(props[i].gave) /\ props[i].gave.some # OpTy(graph[props[i].node + 1])}

\* C17: a propogate that returns an ImOp of another variant than the op's,
\* whatever the op's arity, is the last thing backward does: it aborts
\* there, with no typed error and no further step.
C17_MismatchAborts ==
    \A i \in Mismatches :
        /\ i = Len(props)
        /\ pc = "unpropagated"
        /\ IsPanic(result)

\* What the code keeps: the abort for the ops that have operands.
MismatchAbortsWithOperands ==
    \A i \in Mismatches :
        OpTy(graph[props[i].node + 1]) # "TrainConst" =>
            (i = Len(props) /\ pc = "unpropagated" /\ IsPanic(result))

\* s without the later occurrences of its elements.
RECURSIVE Dedup(_)
Dedup(s) ==
    IF s = <<>> THEN <<>>
    ELSE LET front == Dedup(SubSeq(s, 1, Len(s) - 1))
             last == s[Len(s)]
         IN IF \E i \in 1..Len(front) : front[i] = last THEN front ELSE Append(front, last)

\* Depth-first, operands left to right, and the node after its operands:
\* the Internals whose kernel is asked for, up to and including the first
\* failure, and that failure.
RECURSIVE ForwardOrder(_, _, _, _)
RECURSIVE ForwardOrderOperands(_, _, _, _, _)
ForwardOrderOperands(g, hs, ins, operands, k) ==
    IF k > Len(operands) THEN [err |-> None, order |-> <<>>]
    ELSE LET first == ForwardOrder(g, hs, ins, operands[k])
         IN IF ~IsNone(first.err) THEN first
            ELSE LET rest == ForwardOrderOperands(g, hs, ins, operands, k + 1)
                 IN [err |-> rest.err, order |-> first.order \o rest.order]

ForwardOrder(g, hs, ins, input) ==
    IF input.tag = "Feed"
    THEN [err |-> IF input.name \in DOMAIN ins THEN None ELSE InputNotProvided(input.name),
          order |-> <<>>]
    ELSE LET op == g[input.node + 1]
             below == ForwardOrderOperands(g, hs, ins, OpInputs(op), 1)
         IN IF ~IsNone(below.err) THEN below
            ELSE [err |-> IF OpTy(op) \in DOMAIN hs THEN None ELSE OpHasNoHandler(OpTy(op)),
                  order |-> Append(below.order, input)]

\* The same for backward over a given tape: a node reads its operands from
\* the tape left to right, has its gradients computed, then hands them to
\* its operands left to right.
RECURSIVE BackwardOrder(_, _, _, _, _)
RECURSIVE BackwardOrderOperands(_, _, _, _, _, _)
BackwardOrderOperands(g, hs, ins, solved, operands, k) ==
    IF k > Len(operands) THEN [err |-> None, order |-> <<>>]
    ELSE LET first == BackwardOrder(g, hs, ins, solved, operands[k])
         IN IF ~IsNone(first.err) THEN first
            ELSE LET rest == BackwardOrderOperands(g, hs, ins, solved, operands, k + 1)
                 IN [err |-> rest.err, order |-> first.order \o rest.order]

\* The first operand of the node that cannot be read, or 0.
FirstUnreadable(g, ins, solved, operands) ==
    LET bad == {k \in 1..Len(operands) :
                  IF operands[k].tag = "Feed" THEN operands[k].name \notin DOMAIN ins
                  ELSE \/ operands[k] \notin DOMAIN solved
                       \/ operands[k].output >= Len(solved[operands[k]])}
    IN IF bad = {} THEN 0 ELSE CHOOSE k \in bad : \A j \in bad : k <= j

BackwardOrder(g, hs, ins, solved, input) ==
    IF input.tag = "Feed" THEN [err |-> None, order |-> <<>>]
    ELSE LET op == g[input.node + 1]
             operands == OpInputs(op)
             k == FirstUnreadable(g, ins, solved, operands)
         IN IF k # 0
            THEN [err |-> IF operands[k].tag = "Feed"
                          THEN InputNotProvided(operands[k].name)
                          ELSE InternalNotComputed(operands[k].node,
                                   Some(OpTy(g[operands[k].node + 1]))),
                  order |-> <<>>]
            ELSE IF OpTy(op) \notin DOMAIN hs
            THEN [err |-> OpHasNoHandler(OpTy(op)), order |-> <<input>>]
            ELSE LET below == BackwardOrderOperands(g, hs, ins, solved, operands, 1)
                 IN [err |-> below.err, order |-> <<input>> \o below.order]

BackwardOver == mode = "backend" /\ pc \in {"propagated", "unpropagated"}

\* C18: forward and backward go depth first, operands left before right, a
\* node's kernel after its operands; what the caller gets is the first
\* error in that order, unchanged, and the kernel invocations, tape entries
\* and accumulator entries are exactly those made before it.
C18_FirstErrorStops ==
    /\ (ForwardOver /\ RefsInRange(graph, handlers, target)) =>
          LET ref == ForwardOrder(graph, handlers, inputs, target)
          IN /\ calls = Dedup(ref.order)
             /\ IF IsNone(ref.err) THEN IsOk(result) ELSE result = ref.err
             /\ DOMAIN tape =
                   {calls[i] : i \in {j \in 1..Len(calls) :
                                         OpTy(graph[calls[j].node + 1]) \in DOMAIN handlers}}
    /\ (BackwardOver /\ ~IsPanic(result)) =>
          LET ref == BackwardOrder(graph, handlers, inputs, tape, target)
          IN /\ [i \in 1..Len(props) |-> Internal(props[i].node, props[i].slot)] = ref.order
             /\ IF IsNone(ref.err) THEN IsOk(result) ELSE result = ref.err
             /\ DOMAIN deltas =
                   {props[i].node : i \in {j \in 1..Len(props) : ~IsNone(props[j].train)}}

\* The left operand's missing feed is reported although the right operand's
\* op has no handler; no kernel was asked for.
C18_Witness ==
    /\ ForwardOver
    /\ graph = <<Square(Feed("a")), Add(Feed("z"), Internal(0, 0))>>
    /\ target = Internal(1, 0)
    /\ "Square" \notin DOMAIN handlers
    /\ result = InputNotProvided("z")
    /\ calls = <<>>

\* Backprop is about to enter a node of the graph.
BackpropAtNode ==
    /\ pc = "backward"
    /\ BackpropHasPending(bstack)
    /\ BackpropPending(bstack, target, bdelta).input.tag = "Internal"
    /\ BackpropPending(bstack, target, bdelta).input.node < Len(graph)

\* C19: when backprop enters a node with an operand it cannot read (an
\* Internal with no tape entry or no such slot in the entry, or a feed that
\* is not in the feed dict), the pass ends in that step with
\* InternalNotComputed carrying the operand's node index and op type, or
\* InputNotProvided carrying the name, for the first such operand; propogate
\* is not invoked for the node and the accumulator is left as it was.
C19_BackwardReadsTapeOnly ==
    [][BackpropAtNode =>
          LET operands == OpInputs(graph[BackpropPending(bstack, target, bdelta).input.node + 1])
              k == FirstUnreadable(graph, inputs, tape, operands)
          IN k # 0 =>
                /\ pc' = "unpropagated"
                /\ result' = IF operands[k].tag = "Feed"
                             THEN InputNotProvided(operands[k].name)
                             ELSE InternalNotComputed(operands[k].node,
                                      Some(OpTy(graph[operands[k].node + 1])))
                /\ props' = props
                /\ deltas' = deltas]_vars

\* Node 0 is on the tape under another slot than the operand names: the
\* operand is not computed.
C19_Witness ==
    /\ BackwardOver
    /\ target = Internal(1, 0)
    /\ result = InternalNotComputed(0, Some("TrainConst"))
    /\ Internal(0, 0) \in DOMAIN tape
    /\ props = <<>>
    /\ deltas = EmptyMap

\* The number of operand paths from input to node n.
RECURSIVE PathCount(_, _, _)
RECURSIVE PathCountOperands(_, _, _, _)
PathCountOperands(g, operands, k, n) ==
    IF k > Len(operands) THEN 0
    ELSE PathCount(g, operands[k], n) + PathCountOperands(g, operands, k + 1, n)

PathCount(g, input, n) ==
    IF input.tag = "Feed" THEN 0
    ELSE (IF input.node = n THEN 1 ELSE 0)
         + PathCountOperands(g, OpInputs(g[input.node + 1]), 1, n)

\* Number of propogate invocations on node n.
PropogateCount(n) == Cardinality({i \in 1..Len(props) : props[i].node = n})

\* C20: in a backward pass that succeeded, propogate was invoked on each
\* node once per operand path from the target to the node, two operands
\* that name one node counting as two paths, and the accumulator received
\* one contribution per invocation.
C20_BackwardOncePerPath ==
    (mode = "backend" /\ pc = "propagated") =>
        \A n \in 0..(Len(graph) - 1) :
            /\ PropogateCount(n) = PathCount(graph, target, n)
            /\ Len(TrainOn(props, n)) = PathCount(graph, target, n)
            /\ (n \in DOMAIN deltas) = (PathCount(graph, target, n) > 0)

\* Add over one node named twice: one visit of the Add, two of the node.
C20_Witness ==
    /\ mode = "backend"
    /\ pc = "propagated"
    /\ graph = <<Square(Feed("a")), Add(Internal(0, 0), Internal(0, 0))>>
    /\ target = Internal(1, 0)
    /\ PropogateCount(1) = 1
    /\ PropogateCount(0) = 2

\* Tape::backprop is about to be called on a Feed.
BackpropAtFeed ==
    /\ pc = "backward"
    /\ BackpropHasPending(bstack)
    /\ BackpropPending(bstack, target, bdelta).input.tag = "Feed"

\* C21: Tape::backprop on a Feed returns Ok with the accumulator it was
\* given, whether or not the name is in the feed dict and whatever the tape
\* holds; neither kernel is invoked and nothing else changes.  As the target
\* of the pass it ends the pass with the empty accumulator; as an operand it
\* lets the node go on to its next operand.
C21_FeedTargetTerminal ==
    [][BackpropAtFeed =>
          /\ deltas' = deltas
          /\ props' = props
          /\ calls' = calls
          /\ tape' = tape
          /\ IF bstack = <<>>
             THEN pc' = "propagated" /\ result' = Ok(deltas) /\ deltas = EmptyMap
             ELSE /\ pc' = "backward"
                  /\ result' = None
                  /\ Len(bstack') = Len(bstack)
                  /\ bstack'[Len(bstack)].next = bstack[Len(bstack)].next + 1]_vars

\* Backward on the feed "z", which is not in the feed dict, over the tape of
\* a forward pass on a node: Ok with an empty accumulator, no propogate.
C21_Witness ==
    /\ BackwardOver
    /\ target = Feed("z")
    /\ "z" \notin DOMAIN inputs
    /\ DOMAIN tape # {}
    /\ result = Ok(EmptyMap)
    /\ props = <<>>

\* C22: a step of a forward pass leaves the graph, the State, the feed dict
\* and the handler table as they were and touches no accumulator; a step of
\* a backward pass leaves the graph, the State, the feed dict, the handler
\* table and the tape as they were and invokes no forward kernel.
C22_TraversalsReadOnly ==
    [][/\ pc = "forward" =>
             /\ graph' = graph /\ state' = state /\ inputs' = inputs
             /\ handlers' = handlers
             /\ deltas' = deltas /\ props' = props
       /\ pc = "backward" =>
             /\ graph' = graph /\ state' = state /\ inputs' = inputs
             /\ handlers' = handlers
             /\ tape' = tape /\ calls' = calls /\ stack' = stack]_vars

\* A backward pass over two nodes filled the accumulator; the tape still
\* holds the two entries of the forward pass and the State is the generated one.
C22_Witness ==
    /\ BackwardOver
    /\ pc = "propagated"
    /\ target = Internal(1, 0)
    /\ graph[1].ty = "TrainConst"
    /\ DOMAIN deltas = {0, 1}
    /\ DOMAIN tape = {calls[i] : i \in 1..Len(calls)}
    /\ Len(calls) = 2
    /\ Len(props) >= 2
    /\ state = FullState(graph)

\* The indices of the contributions to node index k.
ContributionsTo(items, k) == {i \in 1..Len(items) : items[i].slot = k}

\* The exact (unrounded) sum of slot i over the contributions to k.
RECURSIVE ExactTotal(_, _, _, _)
ExactTotal(items, k, i, n) ==
    IF n = 0 THEN 0
    ELSE ExactTotal(items, k, i, n - 1)
         + (IF items[n].slot = k THEN items[n].tensors[i] ELSE 0)

C24_GraphsOnlyGrow ==
    [][/\ Len(heap') >= Len(heap)
       /\ \A gid \in 1..Len(heap) :
             /\ Len(heap'[gid]) >= Len(heap[gid])
             /\ SubSeq(heap'[gid], 1, Len(heap[gid])) = heap[gid]
       /\ \A h \in handles \cap handles' :
             h.input.tag = "Internal" =>
                 /\ h.input.node < Len(heap[h.graph])
                 /\ heap'[h.graph][h.input.node + 1] = heap[h.graph][h.input.node + 1]]_vars

\* A handle on a trainable constant still addresses it after its graph was
\* grown by squared and by the merge of another non-empty graph.
C24_Witness ==
    \E t \in handles, r \in handles :
        /\ t.graph = r.graph
        /\ t.input = Internal(0, 0)
        /\ r.input = Internal(3, 0)
        /\ Len(heap[t.graph]) = 4
        /\ heap[t.graph][1].ty = "TrainConst"
        /\ heap[t.graph][2] = Square(Internal(0, 0))
        /\ heap[t.graph][3].ty = "TrainConst"
        /\ heap[t.graph][4].ty \in {"Add", "Sub"}
        /\ heap[t.graph][4].b = Internal(2, 0)

\* Every tape entry belongs to a node whose kernel was invoked and returned
\* the slot asked for, and every operand of such a node can be read: an
\* Internal is on the tape with the slot it names, a feed is in the feed dict.
TapeClosed ==
    \A k \in DOMAIN tape :
        /\ k.node < Len(graph)
        /\ \E i \in 1..Len(calls) : calls[i] = k
        /\ OpTy(graph[k.node + 1]) \in DOMAIN handlers
        /\ k.output < Len(tape[k])
        /\ \A j \in 1..Len(OpInputs(graph[k.node + 1])) :
              LET operand == OpInputs(graph[k.node + 1])[j]
              IN IF operand.tag = "Internal"
                 THEN operand \in DOMAIN tape /\ operand.output < Len(tape[operand])
                 ELSE operand.name \in DOMAIN inputs

\* C25: throughout a forward pass, and the backward pass after it, the tape
\* is closed in that sense; a forward pass that succeeded on an Internal
\* left the target on the tape; and a backward pass from a target on the
\* tape (or a feed) does not fail with InternalNotComputed or
\* InputNotProvided.
C25_TapeClosure ==
    mode = "backend" =>
        /\ pc \in {"forward", "solved", "unsolved", "backward", "propagated", "unpropagated"}
              => TapeClosed
        /\ (pc = "solved" /\ target.tag = "Internal") =>
              (target \in DOMAIN tape /\ target.output < Len(tape[target]))
        /\ (BackwardOver /\ (target.tag = "Feed" \/ target \in DOMAIN tape)) =>
              ~(IsErr(result) /\ result.err \in {"InternalNotComputed", "InputNotProvided"})

\* Backward succeeded from the target of a forward pass whose node reads
\* the second slot of another node and a feed.
C25_Witness ==
    /\ BackwardOver
    /\ pc = "propagated"
    /\ graph = <<TrainConst(<<>>, 1), Add(Internal(0, 1), Feed("a"))>>
    /\ target = Internal(1, 0)
    /\ DOMAIN tape = {Internal(0, 1), Internal(1, 0)}
    /\ Len(props) = 2

\* C26: after a backward pass from an Internal target that succeeded, the
\* accumulator has an entry exactly for the nodes reachable from the target
\* through Internal operands, the target's node included, and each entry
\* has as many slots as every propogate invocation on its node returned
\* state gradients (as many as the node's generated state has).
C26_AccumulatorCoverage ==
    (mode = "backend" /\ pc = "propagated" /\ target.tag = "Internal") =>
        /\ DOMAIN deltas = ReachableFrom(graph, target)
        /\ target.node \in DOMAIN deltas
        /\ \A n \in DOMAIN deltas :
              /\ \E i \in 1..Len(props) : props[i].node = n
              /\ \A i \in 1..Len(props) :
                    props[i].node = n => Len(deltas[n]) = Len(props[i].train.some)
              /\ Len(deltas[n]) = Len(state[n + 1])

\* The target Square has an entry without slots; the trainable constant
\* next to it, which the target does not reach, has none.
C26_Witness ==
    /\ mode = "backend"
    /\ pc = "propagated"
    /\ graph = <<Square(Feed("a")), TrainConst(<<>>, 1)>>
    /\ target = Internal(0, 0)
    /\ deltas = (0 :> <<>>)

\* Native::state went through every node of the graph.
StateGenerated == graph # <<>> /\ Len(partial) = Len(graph)

\* C27: once Native::state succeeded for the graph, every op type of the
\* graph has a handler in the backend's table, and no forward or backward
\* pass over the graph with that backend and state returns OpHasNoHandler.
C27_HandlerCoverage ==
    (mode = "backend" /\ StateGenerated) =>
        /\ pc \notin {"start", "stateless"}
        /\ \A i \in 1..Len(graph) : OpTy(graph[i]) \in DOMAIN handlers
        /\ pc # "state" => state = partial
        /\ ~(IsErr(result) /\ result.err = "OpHasNoHandler")

\* The backend lacks the Sub handler, the graph has no Sub: the state was
\* generated and forward and backward over both nodes succeeded.
C27_Witness ==
    /\ mode = "backend"
    /\ StateGenerated
    /\ DOMAIN handlers = OpTys \ {"Sub"}
    /\ graph = <<TrainConst(<<>>, 1), Square(Internal(0, 0))>>
    /\ pc = "propagated"
    /\ target = Internal(1, 0)
    /\ Len(calls) = 2
    /\ Len(props) = 2
    /\ IsOk(result)

====
